---- MODULE Spec2Model ----
(***************************************************************************)
(* Model of the normalization, aggregation, classification and text-report *)
(* formatting engine of BackbookingRecords (src/processing.py) and of the  *)
(* report wiring of src/streamlit_app.py.                                  *)
(*                                                                         *)
(* Text is a sequence of one-character strings, so that len(), slicing,    *)
(* str.join and str.split are the sequence operations they are in Python.  *)
(* Currency amounts are whole cents (a float with two decimals); Revenue   *)
(* values of the aggregator are whole mills (three decimals).              *)
(***************************************************************************)
EXTENDS Integers, Sequences, FiniteSets, TLC

VARIABLES
    pc,              \* position of the call under study: "call", then "done"
    amount,          \* format_usd: the argument, in cents
    usd_text,        \* format_usd: the returned text
    block_args,      \* format_section_block / build_two_section_report: arguments
    block_text,      \* the returned text block, as its list of lines
    df,              \* the caller's Dataset: a sequence of Records
    df_columns,      \* the column names of the caller's Dataset
    top_n,           \* compute_sections: the row cap
    call,            \* the report function called on the Dataset, and its channel
    df_out,          \* the Dataset a bucketing function returns, or Raised
    sections,        \* compute_sections: section name -> SummaryTable
    table,           \* df_to_tsv: the SummaryTable argument
    tsv_text,        \* df_to_tsv: the returned text
    channel_label,   \* classify_channel: the argument
    channel_bucket,  \* classify_channel: the returned bucket
    raw_cell,        \* revenue coercion: the raw cell text
    revenue,         \* revenue coercion: the coerced number
    uploaded,        \* read_and_normalize: the headers and row count of the source
    ingest_result    \* read_and_normalize: the returned columns, or the error

vars == <<pc, amount, usd_text, block_args, block_text, df, df_columns, top_n, call, df_out,
          sections,
          table, tsv_text, channel_label, channel_bucket, raw_cell, revenue,
          uploaded, ingest_result>>

Idle == "idle"
None == "None"

\* the variables of each component, and their value while another is studied
usdVars == <<amount, usd_text>>
blockVars == <<block_args, block_text>>
dfVars == <<df, df_columns, top_n, call, df_out, sections>>
tsvVars == <<table, tsv_text>>
channelVars == <<channel_label, channel_bucket>>
cellVars == <<raw_cell, revenue>>
ingestVars == <<uploaded, ingest_result>>
IdleUsd == amount = Idle /\ usd_text = Idle
IdleBlock == block_args = Idle /\ block_text = Idle
IdleDf ==
    /\ df = Idle /\ df_columns = Idle /\ top_n = Idle /\ call = Idle
    /\ df_out = Idle /\ sections = Idle
IdleTsv == table = Idle /\ tsv_text = Idle
IdleChannel == channel_label = Idle /\ channel_bucket = Idle
IdleCell == raw_cell = Idle /\ revenue = Idle
IdleIngest == uploaded = Idle /\ ingest_result = Idle

(***************************************************************************)
(* Text helpers                                                            *)
(***************************************************************************)
Max(a, b) == IF a >= b THEN a ELSE b
Min(a, b) == IF a <= b THEN a ELSE b
Abs(a) == IF a < 0 THEN -a ELSE a

\* s * n of Python: the character ch repeated n times (empty for n <= 0)
Repeat(ch, n) == [i \in 1..n |-> ch]

\* s[:n] of Python for n >= 0
Prefix(s, n) == SubSeq(s, 1, Min(n, Len(s)))

DigitChar(d) == CASE d = 0 -> "0" [] d = 1 -> "1" [] d = 2 -> "2" [] d = 3 -> "3"
                  [] d = 4 -> "4" [] d = 5 -> "5" [] d = 6 -> "6" [] d = 7 -> "7"
                  [] d = 8 -> "8" [] d = 9 -> "9"

\* the decimal digits of a natural number
RECURSIVE Digits(_)
Digits(n) == IF n < 10 THEN <<DigitChar(n)>>
             ELSE Digits(n \div 10) \o <<DigitChar(n % 10)>>

\* the "," option of a format spec: a comma before every group of three digits
Commas(ds) == LET n == Len(ds)
                  Piece(i) == IF i > 1 /\ (n - i + 1) % 3 = 0
                              THEN <<",", ds[i]>> ELSE <<ds[i]>>
                  RECURSIVE Build(_)
                  Build(i) == IF i > n THEN <<>> ELSE Piece(i) \o Build(i + 1)
              IN Build(1)

(***************************************************************************)
(* format_usd                                                              *)
(***************************************************************************)
\* round(a_abs) of Python 3 for a_abs = c/100, c >= 0: to the nearest integer,
\* a tie (exactly .5) going to the even neighbour
RoundInt(c) ==
    LET q == c \div 100
        r == c % 100
    IN IF r > 50 THEN q + 1
       ELSE IF r < 50 THEN q
       ELSE IF q % 2 = 0 THEN q ELSE q + 1

\* f"{a_abs:,.2f}" for 0 < a_abs < 1, a_abs = c/100
Fixed2(c) == <<"0", ".", DigitChar(c \div 10), DigitChar(c % 10)>>

format_usd(c) ==
    LET sign == IF c < 0 THEN <<"-">> ELSE <<>>
        a_abs == Abs(c)
        core == IF a_abs = 0 THEN <<"0">>
                ELSE IF a_abs < 100 THEN Fixed2(a_abs)
                ELSE Commas(Digits(RoundInt(a_abs)))
    IN sign \o <<"$">> \o core

\* the amounts tried: up to MaxDollars dollars, with these cents, of either sign
MaxDollars == 1300
CentChoices == {0, 1, 40, 49, 50, 51, 99}
UsdAmounts == {s * (d * 100 + c) : s \in {-1, 1}, d \in 0..MaxDollars, c \in CentChoices}

InitUsd ==
    /\ pc = "call"
    /\ amount \in UsdAmounts
    /\ usd_text = Idle
    /\ IdleBlock /\ IdleDf /\ IdleTsv /\ IdleChannel /\ IdleCell /\ IdleIngest

FormatUsd ==
    /\ pc = "call"
    /\ usd_text' = format_usd(amount)
    /\ pc' = "done"
    /\ UNCHANGED <<amount, blockVars, dfVars, tsvVars, channelVars, cellVars, ingestVars>>

NextUsd == FormatUsd

SpecUsd == InitUsd /\ [][NextUsd]_vars

\* the digits of the nearest integer to c/100, a tie going away from zero
\* ("standard rounding": 1234.5 gives 1235)
RoundHalfUp(c) == (c + 50) \div 100

\* C1: format_usd(amount) follows the currency rule for every amount: zero is
\* "$0"; 0 < |a| < 1 has exactly two decimal places; |a| >= 1 is the
\* thousands-separated integer nearest to |a| with standard rounding (1234.5
\* gives "$1,235"); a negative amount has a minus sign before the dollar sign.
C1_CurrencyRule ==
    pc = "done" =>
        LET a == Abs(amount)
            body == IF amount < 0 THEN Tail(usd_text) ELSE usd_text
        IN /\ (amount < 0) = (Head(usd_text) = "-")
           /\ Head(body) = "$"
           /\ a = 0 => body = <<"$", "0">>
           /\ (0 < a /\ a < 100) =>
                 /\ Len(body) = 5
                 /\ body[3] = "."
                 /\ body = <<"$", "0", ".">> \o SubSeq(Digits(100 + a), 2, 3)
           /\ a >= 100 => body = <<"$">> \o Commas(Digits(RoundHalfUp(a)))
           /\ amount = 123450 => usd_text = <<"$", "1", ",", "2", "3", "5">>
           /\ amount = -500 => usd_text = <<"-", "$", "5">>
           /\ amount = 40 => usd_text = <<"$", "0", ".", "4", "0">>

(***************************************************************************)
(* Fixed-width report formatter                                            *)
(***************************************************************************)
\* an optional argument: <<>> is Python's None, <<x>> a given value
Absent == <<>>
Given(x) == <<x>>

UpperChars == {"A", "B", "C", "D", "E", "F", "G", "H", "I", "J", "K", "L", "M",
               "N", "O", "P", "Q", "R", "S", "T", "U", "V", "W", "X", "Y", "Z"}
LowerChars == {"a", "b", "c", "d", "e", "f", "g", "h", "i", "j", "k", "l", "m",
               "n", "o", "p", "q", "r", "s", "t", "u", "v", "w", "x", "y", "z"}
DigitChars == {"0", "1", "2", "3", "4", "5", "6", "7", "8", "9"}

\* one code point of the Mathematical Bold block stands for each ASCII
\* letter or digit; every other character is kept
_bold_alnum(s) ==
    [i \in 1..Len(s) |->
        IF s[i] \in UpperChars \cup LowerChars \cup DigitChars
        THEN "bold-" \o s[i] ELSE s[i]]

\* sep.join(parts)
RECURSIVE Join(_, _)
Join(parts, sep) ==
    IF parts = <<>> THEN <<>>
    ELSE IF Len(parts) = 1 THEN parts[1]
    ELSE parts[1] \o sep \o Join(Tail(parts), sep)

\* text.split(sep) for a one-character sep
RECURSIVE SplitFrom(_, _, _)
SplitFrom(text, sep, i) ==
    LET stops == {j \in i..Len(text) : text[j] = sep}
        stop == CHOOSE j \in stops : \A k \in stops : j <= k
    IN IF stops = {} THEN <<SubSeq(text, i, Len(text))>>
       ELSE <<SubSeq(text, i, stop - 1)>> \o SplitFrom(text, sep, stop + 1)
Split(text, sep) == SplitFrom(text, sep, 1)

_truncate_left(left, max_chars) ==
    IF Len(left) <= max_chars THEN left
    ELSE IF max_chars <= 3 THEN Prefix(left, max_chars)
    ELSE Prefix(left, max_chars - 3) \o <<".", ".", ".">>

\* min(max(42, amount_col + 20), page_width)
BlockWidth(amount_col, page_width) == Min(Max(42, amount_col + 20), page_width)

\* max((len(format_usd(v)) for _, v in pairs), default=len("$0"))
MaxRight(pairs) ==
    IF pairs = <<>> THEN 2
    ELSE CHOOSE m \in {Len(format_usd(pairs[i][2])) : i \in 1..Len(pairs)} :
           \A j \in 1..Len(pairs) : Len(format_usd(pairs[j][2])) <= m

EffectiveAmountCol(pairs, amount_col, page_width) ==
    Max(1, Min(amount_col, BlockWidth(amount_col, page_width) - MaxRight(pairs) - 1))

\* the truncation budget of the labels: the override, or min(34, effective - 1)
MaxLeftChars(pairs, amount_col, page_width, max_left_chars) ==
    IF max_left_chars = Absent
    THEN Min(34, EffectiveAmountCol(pairs, amount_col, page_width) - 1)
    ELSE max_left_chars[1]

\* one body line: label, padding, amount, cut to the block width
BodyLine(pair, effective_amount_col, max_left, width) ==
    LET left == _truncate_left(pair[1], max_left)
        right == format_usd(pair[2])
        spaces == Max(1, effective_amount_col - Len(left) - Len(right))
        line == left \o Repeat(" ", spaces) \o right
    IN IF Len(line) > width THEN Prefix(line, width) ELSE line

format_section_block(section, pairs, section_total, amount_col, page_width, max_left_chars, include_rule, header_override) ==
    LET header == _bold_alnum(
            IF header_override # Absent THEN header_override[1]
            ELSE section \o <<" ", "(">> \o format_usd(section_total)
                         \o <<")", " ", "A", "l", "l", " ", "A", "c", "c", "o", "u", "n", "t", "s", " ", "(", "O", "v", "e", "r", "a", "l", "l", " ", "T", "o", "t", "a", "l", ")">>)
        width == BlockWidth(amount_col, page_width)
        rule == Repeat("=", width)
        effective_amount_col == EffectiveAmountCol(pairs, amount_col, page_width)
        max_left == MaxLeftChars(pairs, amount_col, page_width, max_left_chars)
        lines == <<header>> \o (IF include_rule THEN <<rule>> ELSE <<>>)
                 \o [i \in 1..Len(pairs) |->
                        BodyLine(pairs[i], effective_amount_col, max_left, width)]
    IN Join(lines, <<"\n">>)

build_two_section_report(left_name, left_pairs, left_total, right_name, right_pairs, right_total, amount_col, page_width, section_rule, separator_rule, header_left, header_right) ==
    LET block_left == format_section_block(left_name, left_pairs, left_total,
                          amount_col, page_width, Absent, section_rule, header_left)
        block_right == format_section_block(right_name, right_pairs, right_total,
                          amount_col, page_width, Absent, section_rule, header_right)
        rule == Repeat("=", Min(page_width, Max(42, amount_col + 20)))
    IN IF separator_rule
       THEN block_left \o <<"\n">> \o rule \o <<"\n">> \o block_right
       ELSE block_left \o <<"\n", "\n">> \o block_right

\* sum(v for _, v in pairs)
RECURSIVE SumAmounts(_)
SumAmounts(pairs) == IF pairs = <<>> THEN 0 ELSE pairs[1][2] + SumAmounts(Tail(pairs))

\* the header main() gives a section of the advertiser breakout
BreakoutHeader(name, pairs_all, top_n_adv) ==
    LET total == SumAmounts(pairs_all)
        cnt == Len(pairs_all)
    IN IF cnt <= top_n_adv
       THEN name \o <<" ", "(">> \o format_usd(total) \o <<" ", "O", "v", "e", "r", "a", "l", "l", " ", "T", "o", "t", "a", "l", ")", " ", "-", " ", "a", "l", "l", " ">>
            \o Digits(cnt) \o <<" ", "a", "c", "c", "o", "u", "n", "t", "s", " ", "b", "e", "l", "o", "w">>
       ELSE name \o <<" ", "(">> \o format_usd(total) \o <<" ", "O", "v", "e", "r", "a", "l", "l", " ", "T", "o", "t", "a", "l", ")", " ", "-", " ", "T", "o", "p", " ">>
            \o Digits(top_n_adv) \o <<" ", "a", "c", "c", "o", "u", "n", "t", "s", " ", "b", "e", "l", "o", "w", " ", "o", "f", " ">> \o Digits(cnt)

\* the "PMP / OE Breakout by Advertiser" tab of main()
AdvertiserBreakoutReport(pairs_oe_all, pairs_pmp_all, amount_col2, page_width2, top_n_adv) ==
    build_two_section_report(
        <<"O", "E">>, Prefix(pairs_oe_all, top_n_adv), SumAmounts(pairs_oe_all),
        <<"P", "M", "P">>, Prefix(pairs_pmp_all, top_n_adv), SumAmounts(pairs_pmp_all),
        amount_col2, page_width2, FALSE, TRUE,
        Given(BreakoutHeader(<<"O", "E">>, pairs_oe_all, top_n_adv)),
        Given(BreakoutHeader(<<"P", "M", "P">>, pairs_pmp_all, top_n_adv)))

\* ---- the arguments tried ----
MaxPairs == 2
MaxLabel == 60
BigAmount == 500000000
LabelChoices == {Repeat("x", n) : n \in {0, 35, MaxLabel}}
PairAmounts == {40, -500, BigAmount}
PairChoices == {<<l, v>> : l \in LabelChoices, v \in PairAmounts}
PairLists == UNION {[1..n -> PairChoices] : n \in 0..MaxPairs}
RightPairLists == {<<>>, <<<<<<"A", "c", "m", "e", " ", "C", "o">>, 123450>>>>}
\* the widget bounds of main(): amount column 30..60 (default 40), page width
\* 42..80 (default 80); format_section_block itself takes any integers
AmountCols == {30, 40, 60}
PageWidths == {42, 80}
TopNAdv == 5

\* pairs as pairs_advertiser_by_channel returns them: one row per advertiser,
\* in non-increasing order of amount
IsRankedPairs(pairs) ==
    /\ \A i, j \in 1..Len(pairs) : i < j => pairs[i][2] >= pairs[j][2]
    /\ \A i, j \in 1..Len(pairs) : i # j => pairs[i][1] # pairs[j][1]

InitBlock ==
    /\ pc = "call"
    /\ block_args \in [pairs : PairLists,
                       section_total : {0, 123456700},
                       amount_col : AmountCols,
                       page_width : PageWidths,
                       max_left_chars : {Absent, Given(3), Given(MaxLabel)},
                       include_rule : BOOLEAN,
                       header_override : {Absent, Given(Repeat("h", MaxLabel))}]
    /\ block_text = Idle
    /\ IdleUsd /\ IdleDf /\ IdleTsv /\ IdleChannel /\ IdleCell /\ IdleIngest

blockFrame == <<block_args, usdVars, dfVars, tsvVars, channelVars, cellVars, ingestVars>>

FormatSectionBlock ==
    /\ pc = "call"
    /\ block_text' = [op |-> "format_section_block",
                      text |-> format_section_block(<<"O", "E">>, block_args.pairs,
                                  block_args.section_total, block_args.amount_col,
                                  block_args.page_width, block_args.max_left_chars,
                                  block_args.include_rule, block_args.header_override)]
    /\ pc' = "done"
    /\ UNCHANGED blockFrame

BuildTwoSectionReport ==
    /\ pc = "call"
    /\ block_args.max_left_chars = Absent
    /\ \E right_pairs \in RightPairLists, separator_rule \in BOOLEAN :
         block_text' = [op |-> "build_two_section_report",
                        text |-> build_two_section_report(
                                    <<"O", "E">>, block_args.pairs, block_args.section_total,
                                    <<"P", "M", "P">>, right_pairs, SumAmounts(right_pairs),
                                    block_args.amount_col, block_args.page_width,
                                    block_args.include_rule, separator_rule,
                                    block_args.header_override, Absent)]
    /\ pc' = "done"
    /\ UNCHANGED blockFrame

AdvertiserBreakout ==
    /\ pc = "call"
    /\ block_args.max_left_chars = Absent
    /\ block_args.header_override = Absent
    /\ ~block_args.include_rule
    /\ IsRankedPairs(block_args.pairs)
    /\ \E pairs_pmp_all \in RightPairLists :
         block_text' = [op |-> "main",
                        text |-> AdvertiserBreakoutReport(block_args.pairs, pairs_pmp_all,
                                    block_args.amount_col, block_args.page_width, TopNAdv)]
    /\ pc' = "done"
    /\ UNCHANGED blockFrame

NextBlock == FormatSectionBlock \/ BuildTwoSectionReport \/ AdvertiserBreakout

SpecBlock == InitBlock /\ [][NextBlock]_vars

\* the lines of the returned text block
BlockLines == Split(block_text.text, "\n")
\* the body lines of a format_section_block result: those after the header
\* line and the optional rule line
BodyLines == SubSeq(BlockLines, IF block_args.include_rule THEN 3 ELSE 2, Len(BlockLines))

\* C2: no line of the text block returned by format_section_block (header
\* line, optional rule line, every body line) is longer than the block width
\* min(max(42, amount_col + 20), page_width), and the same holds for every
\* line of build_two_section_report's output.
C2_NoLineExceedsWidth ==
    pc = "done" =>
        \A i \in 1..Len(BlockLines) :
            Len(BlockLines[i]) <= BlockWidth(block_args.amount_col, block_args.page_width)

\* C3: every body line of format_section_block, for any pairs, amount_col,
\* page_width and max_left_chars (default or overridden), has at least one
\* space between the (possibly truncated) label and the amount, also after
\* the final truncation to the block width.
C3_SeparatingSpace ==
    (pc = "done" /\ block_text.op = "format_section_block") =>
        /\ Len(BodyLines) = Len(block_args.pairs)
        /\ \A i \in 1..Len(BodyLines) :
             LET left == _truncate_left(block_args.pairs[i][1],
                            MaxLeftChars(block_args.pairs, block_args.amount_col,
                                         block_args.page_width, block_args.max_left_chars))
             IN /\ Len(BodyLines[i]) > Len(left)
                /\ BodyLines[i][Len(left) + 1] = " "

(***************************************************************************)
(* Dataset and Aggregator                                                  *)
(*                                                                         *)
(* A Dataset is a sequence of Records; a Record maps a column name to a    *)
(* value. "Date - EST" holds a timestamp [y, m, d, h] or NaT, Revenue a    *)
(* number of mills, every other column a string.                           *)
(***************************************************************************)
REQUIRED_COLUMNS == <<"Date - EST", "RTB Channel", "RTB Advertiser", "RTB SSP",
                      "System", "RTB Deal ID", "RTB Creative ID", "Revenue">>

\* the invalid/missing date that pd.to_datetime(errors="coerce") leaves
NaT == [y |-> 0, m |-> 0, d |-> 0, h |-> 0]

\* Timestamp.normalize() and .dt.date: the time of day is dropped; NaT stays NaT
Normalize(t) == [t EXCEPT !.h = 0]

\* a missing cell: among the columns of a normalized Dataset only a date can
\* be missing (the string columns went through astype(str))
IsMissing(col, v) == col \in {"Date", "Date - EST"} /\ v = NaT

Record(date, channel, advertiser, ssp, system, deal, creative, rev) ==
    [c \in {REQUIRED_COLUMNS[i] : i \in 1..8} |->
        CASE c = "Date - EST" -> date
          [] c = "RTB Channel" -> channel
          [] c = "RTB Advertiser" -> advertiser
          [] c = "RTB SSP" -> ssp
          [] c = "System" -> system
          [] c = "RTB Deal ID" -> deal
          [] c = "RTB Creative ID" -> creative
          [] c = "Revenue" -> rev]

\* df[col] = value on every row (a column added to, or replaced in, a copy)
WithColumn(row, col, value) ==
    [c \in DOMAIN row \cup {col} |-> IF c = col THEN value ELSE row[c]]

\* the strings of the Datasets tried, in the order Python sorts them
Collation == <<"", "Acme", "Beta", "Open Exchange", "PMP deal", "S1", "S2",
               "Video", "X", "Y", "c1", "c2", "d1", "d2">>

\* the position of a cell among the values of its column, as sorting sees it:
\* dates by calendar order with NaT last, strings by collation
SortRank(col, v) ==
    IF col \in {"Date", "Date - EST"}
    THEN (IF IsMissing(col, v) THEN 99999999 ELSE ((v.y * 100 + v.m) * 100 + v.d) * 100 + v.h)
    ELSE CHOOSE i \in 1..Len(Collation) : Collation[i] = v

\* lexicographic order of two group keys of the columns by
RECURSIVE KeyBefore(_, _, _)
KeyBefore(by, k1, k2) ==
    /\ by # <<>>
    /\ \/ SortRank(by[1], k1[1]) < SortRank(by[1], k2[1])
       \/ /\ k1[1] = k2[1]
          /\ KeyBefore(Tail(by), Tail(k1), Tail(k2))

KeyOf(row, by) == [i \in 1..Len(by) |-> row[by[i]]]

\* the group keys in ascending order (groupby sorts its keys; dropna=False
\* keeps a key that is missing)
RECURSIVE SortKeys(_, _)
SortKeys(by, keys) ==
    IF keys = {} THEN <<>>
    ELSE LET first == CHOOSE k \in keys : \A o \in keys \ {k} : KeyBefore(by, k, o)
         IN <<first>> \o SortKeys(by, keys \ {first})

GroupKeys(frame, by) == SortKeys(by, {KeyOf(frame[i], by) : i \in 1..Len(frame)})

\* the sum of Revenue over the rows of one group
RECURSIVE SumRevenue(_, _, _)
SumRevenue(frame, by, key) ==
    IF frame = <<>> THEN 0
    ELSE (IF KeyOf(frame[1], by) = key THEN frame[1]["Revenue"] ELSE 0)
         + SumRevenue(Tail(frame), by, key)

\* Series.round(2) on mills: to the nearest multiple of 10, a tie going to the
\* even cent (numpy rounds half to even)
Round2(mills) ==
    LET q == mills \div 10
        r == mills % 10
    IN IF r < 5 THEN q * 10
       ELSE IF r > 5 THEN (q + 1) * 10
       ELSE IF q % 2 = 0 THEN q * 10 ELSE (q + 1) * 10

\* sort_values("Revenue", ascending=False), rows of equal Revenue keeping
\* their order
RECURSIVE SortByRevenueDesc(_)
SortByRevenueDesc(rows) ==
    IF rows = <<>> THEN <<>>
    ELSE LET top == CHOOSE i \in 1..Len(rows) :
                      /\ \A j \in 1..Len(rows) : rows[j].Revenue <= rows[i].Revenue
                      /\ \A j \in 1..(i - 1) : rows[j].Revenue < rows[i].Revenue
         IN <<rows[top]>> \o
            SortByRevenueDesc(SubSeq(rows, 1, top - 1) \o SubSeq(rows, top + 1, Len(rows)))

\* groupby(by, dropna=False)["Revenue"].sum(): one row per group, unrounded
GroupedSums(frame, by) ==
    LET keys == GroupKeys(frame, by)
    IN [i \in 1..Len(keys) |-> [key |-> keys[i], Revenue |-> SumRevenue(frame, by, keys[i])]]

\* a mutant of _group_sum: groupby's default dropna=True, which leaves out
\* the rows whose key is missing
_group_sum_dropna(frame, by) ==
    LET kept == SelectSeq(frame, LAMBDA row :
                    \A i \in 1..Len(by) : ~IsMissing(by[i], row[by[i]]))
        g == SortByRevenueDesc(GroupedSums(kept, by))
    IN [i \in 1..Len(g) |-> [key |-> g[i].key, Revenue |-> Round2(g[i].Revenue)]]

_group_sum(frame, by) ==
    LET g == SortByRevenueDesc(GroupedSums(frame, by))
    IN [i \in 1..Len(g) |-> [key |-> g[i].key, Revenue |-> Round2(g[i].Revenue)]]

\* DataFrame.head(n)
Head_n(rows, n) == SubSeq(rows, 1, Min(n, Len(rows)))

\* a mutant of TopSsp: the advertiser's first SSP in key order, whatever its sum
TopSspFirstKey(frame, advertiser) ==
    LET ssp_g == GroupedSums(frame, <<"RTB Advertiser", "RTB SSP">>)
        mine == {i \in 1..Len(ssp_g) : ssp_g[i].key[1] = advertiser}
    IN ssp_g[CHOOSE i \in mine : \A j \in mine : i <= j].key[2]

\* the SSP of the first row of an advertiser in ssp_g, which is sorted by
\* advertiser and then by Revenue, largest first (drop_duplicates keep="first")
TopSsp(frame, advertiser) ==
    LET by == <<"RTB Advertiser", "RTB SSP">>
        ssp_g == GroupedSums(frame, by)
        mine == {i \in 1..Len(ssp_g) : ssp_g[i].key[1] = advertiser}
        first == CHOOSE i \in mine :
                    /\ \A j \in mine : ssp_g[j].Revenue <= ssp_g[i].Revenue
                    /\ \A j \in mine : j < i => ssp_g[j].Revenue < ssp_g[i].Revenue
    IN ssp_g[first].key[2]

\* the section names of compute_sections with the columns each is grouped by
SectionColumns ==
    [s \in {"Revenue by Date", "By RTB Channel", "By RTB Advertiser", "By RTB SSP",
            "By System", "By Deal ID", "By Creative ID"} |->
        CASE s = "Revenue by Date" -> <<"Date">>
          [] s = "By RTB Channel" -> <<"RTB Channel">>
          [] s = "By RTB Advertiser" -> <<"RTB Advertiser">>
          [] s = "By RTB SSP" -> <<"RTB SSP">>
          [] s = "By System" -> <<"System">>
          [] s = "By Deal ID" -> <<"RTB Deal ID", "RTB Advertiser">>
          [] s = "By Creative ID" -> <<"RTB Creative ID", "RTB Advertiser">>]

compute_sections(frame, n) ==
    IF frame = <<>> THEN <<>>
    ELSE
      LET daily == [i \in 1..Len(frame) |->
                      WithColumn(frame[i], "Date", Normalize(frame[i]["Date - EST"]))]
          adv_totals == Head_n(_group_sum(frame, <<"RTB Advertiser">>), 10000)
          adv_merged == [i \in 1..Len(adv_totals) |->
                           [key |-> <<adv_totals[i].key[1],
                                      TopSsp(frame, adv_totals[i].key[1])>>,
                            Revenue |-> adv_totals[i].Revenue]]
      IN [s \in DOMAIN SectionColumns |->
            IF s = "Revenue by Date" THEN Head_n(_group_sum(daily, SectionColumns[s]), n)
            ELSE IF s = "By RTB Advertiser" THEN Head_n(adv_merged, n)
            ELSE Head_n(_group_sum(frame, SectionColumns[s]), n)]

\* the call of a function on the Dataset; channel is None where the function
\* takes none
Call(fn, channel) == [fn |-> fn, channel |-> channel]

\* ---- the Datasets tried ----
MaxRecords == 3
Day(y, m, d, h) == [y |-> y, m |-> m, d |-> d, h |-> h]
\* Revenue values in mills: 0.004 and -1.23
RevenueChoices == {4, -1230}
AggRecords ==
    UNION {{Record(Day(2024, 1, 1, 0), "PMP deal", "Acme", "S1", "X", "d1", "c1", r),
            Record(Day(2024, 1, 1, 18), "Open Exchange", "Acme", "S2", "X", "d2", "c1", r),
            Record(Day(2024, 1, 8, 0), "PMP deal", "Beta", "S1", "Y", "d1", "c2", r),
            Record(NaT, "Video", "Beta", "S2", "X", "", "c2", r)} : r \in RevenueChoices}
AggDatasets == UNION {[1..n -> AggRecords] : n \in 0..MaxRecords}
\* the row cap: the default, and one that truncates
TopNChoices == {1, 25}

InitAgg ==
    /\ pc = "call"
    /\ df \in AggDatasets
    /\ df_columns = REQUIRED_COLUMNS
    /\ top_n \in TopNChoices
    /\ call = Call("compute_sections", None)
    /\ df_out = Idle
    /\ sections = Idle
    /\ IdleUsd /\ IdleBlock /\ IdleTsv /\ IdleChannel /\ IdleCell /\ IdleIngest

ComputeSections ==
    /\ pc = "call"
    /\ call.fn = "compute_sections"
    /\ sections' = compute_sections(df, top_n)
    /\ pc' = "done"
    /\ UNCHANGED <<df, df_columns, top_n, call, df_out, usdVars, blockVars, tsvVars, channelVars, cellVars, ingestVars>>

NextAgg == ComputeSections

SpecAgg == InitAgg /\ [][NextAgg]_vars

\* the ungrouped total: df["Revenue"].sum()
RECURSIVE TotalRevenue(_)
TotalRevenue(frame) ==
    IF frame = <<>> THEN 0 ELSE frame[1]["Revenue"] + TotalRevenue(Tail(frame))

RECURSIVE SumRows(_)
SumRows(rows) == IF rows = <<>> THEN 0 ELSE rows[1].Revenue + SumRows(Tail(rows))

\* the number of groups of a section: the rows it has when the cap cuts none
NumGroups(frame, s) ==
    Cardinality({KeyOf(WithColumn(frame[i], "Date", Normalize(frame[i]["Date - EST"])),
                       SectionColumns[s]) : i \in 1..Len(frame)})

\* C4: conservation of total: for every grouping key combination of the
\* Aggregator, with a row cap that does not truncate, the Revenue values of
\* the summary rows sum to the ungrouped total Revenue of the record set.
C4_ConservationOfTotal ==
    (pc = "done" /\ df # <<>>) =>
        \A s \in DOMAIN sections :
            NumGroups(df, s) <= top_n => SumRows(sections[s]) = TotalRevenue(df)

\* C4 as amended: every row's Revenue is its group's sum rounded to 2
\* decimals, so with a cap that does not truncate the rows sum to the
\* ungrouped total to within half a cent per row, and exactly when every
\* Revenue of the record set is a whole number of cents.
C4_ConservationUpToRounding ==
    (pc = "done" /\ df # <<>>) =>
        \A s \in DOMAIN sections :
            NumGroups(df, s) <= top_n =>
                /\ Len(sections[s]) = NumGroups(df, s)
                /\ Abs(SumRows(sections[s]) - TotalRevenue(df)) <= 5 * Len(sections[s])
                /\ (\A i \in 1..Len(df) : df[i]["Revenue"] % 10 = 0)
                      => SumRows(sections[s]) = TotalRevenue(df)

\* a Dataset of several groups whose Revenue is not in whole cents was summarised
C4_Witness ==
    /\ pc = "done" /\ df # <<>> /\ top_n = 25
    /\ Len(sections["By RTB Advertiser"]) = 2
    /\ \E i \in 1..Len(df) : df[i]["Revenue"] % 10 # 0
    /\ \E i \in 1..Len(df) : df[i]["Date - EST"] = NaT
    /\ SumRows(sections["By RTB SSP"]) # TotalRevenue(df)

(***************************************************************************)
(* Export serializer                                                       *)
(*                                                                         *)
(* A SummaryTable for export is its column names and its rows of cells; a  *)
(* cell is the text str(v) gives, or is missing (pd.isna(v)).              *)
(***************************************************************************)
MissingCell == [missing |-> TRUE, text |-> <<>>]
Cell(text) == [missing |-> FALSE, text |-> text]

\* "" if pd.isna(v) else str(v)
CellText(cell) == IF cell.missing THEN <<>> ELSE cell.text

\* one line of the output: the cells joined by tabs, and a newline
TsvLine(texts) == Join(texts, <<"\t">>) \o <<"\n">>

RECURSIVE TsvRows(_)
TsvRows(rows) ==
    IF rows = <<>> THEN <<>>
    ELSE TsvLine([j \in 1..Len(rows[1]) |-> CellText(rows[1][j])]) \o TsvRows(Tail(rows))

df_to_tsv(t) == TsvLine(t.columns) \o TsvRows(t.rows)

\* reading the export back: the lines the newlines end, each split on tabs
ParseTsv(text) ==
    LET pieces == Split(text, "\n")
        lines == SubSeq(pieces, 1, Len(pieces) - 1)
    IN [i \in 1..Len(lines) |-> Split(lines[i], "\t")]

\* ---- the tables tried ----
MaxRows == 2
ExportColumns == <<<<"R", "T", "B", " ", "A", "d", "v", "e", "r", "t", "i", "s", "e", "r">>, <<"R", "e", "v", "e", "n", "u", "e">>>>
CellChoices == {MissingCell, Cell(<<>>), Cell(<<"A", "c", "m", "e", " ", "C", "o">>), Cell(<<"1", ".", "2", "3">>),
                Cell(<<"A", "\t", "B">>), Cell(<<"A", "\n", "B">>)}
ExportTables ==
    UNION {[columns : {ExportColumns},
            rows : [1..n -> [1..Len(ExportColumns) -> CellChoices]]] : n \in 0..MaxRows}

InitTsv ==
    /\ pc = "call"
    /\ table \in ExportTables
    /\ tsv_text = Idle
    /\ IdleUsd /\ IdleBlock /\ IdleDf /\ IdleChannel /\ IdleCell /\ IdleIngest

DfToTsv ==
    /\ pc = "call"
    /\ tsv_text' = df_to_tsv(table)
    /\ pc' = "done"
    /\ UNCHANGED <<table, usdVars, blockVars, dfVars, channelVars, cellVars, ingestVars>>

NextTsv == DfToTsv

SpecTsv == InitTsv /\ [][NextTsv]_vars

\* C5: export round-trip: splitting the output of df_to_tsv on newline and
\* then on tab yields the header row followed by exactly one row per table
\* entry whose cells are the original cell strings (a missing cell being the
\* empty string), for all cell strings, those with a tab or newline included.
C5_ExportRoundTrip ==
    pc = "done" =>
        ParseTsv(tsv_text) =
            <<table.columns>> \o
            [i \in 1..Len(table.rows) |->
                [j \in 1..Len(table.rows[i]) |-> CellText(table.rows[i][j])]]

(***************************************************************************)
(* Channel classifier                                                      *)
(***************************************************************************)
Whitespace == {" ", "\t", "\n", "\r"}

\* str.lower() on the letters of the labels
LowerOf(ch) ==
    CASE ch = "A" -> "a" [] ch = "B" -> "b" [] ch = "C" -> "c" [] ch = "D" -> "d"
      [] ch = "E" -> "e" [] ch = "F" -> "f" [] ch = "G" -> "g" [] ch = "H" -> "h"
      [] ch = "I" -> "i" [] ch = "J" -> "j" [] ch = "K" -> "k" [] ch = "L" -> "l"
      [] ch = "M" -> "m" [] ch = "N" -> "n" [] ch = "O" -> "o" [] ch = "P" -> "p"
      [] ch = "Q" -> "q" [] ch = "R" -> "r" [] ch = "S" -> "s" [] ch = "T" -> "t"
      [] ch = "U" -> "u" [] ch = "V" -> "v" [] ch = "W" -> "w" [] ch = "X" -> "x"
      [] ch = "Y" -> "y" [] ch = "Z" -> "z" [] OTHER -> ch
Lower(s) == [i \in 1..Len(s) |-> LowerOf(s[i])]

\* str.strip(): leading and trailing whitespace removed
Strip(s) ==
    LET inked == {i \in 1..Len(s) : s[i] \notin Whitespace}
        first == CHOOSE i \in inked : \A j \in inked : i <= j
        last == CHOOSE i \in inked : \A j \in inked : j <= i
    IN IF inked = {} THEN <<>> ELSE SubSeq(s, first, last)

\* t in v
Contains(v, t) == \E i \in 1..(Len(v) - Len(t) + 1) : SubSeq(v, i, i + Len(t) - 1) = t

PmpTokens == <<<<"p", "m", "p">>, <<"p", "r", "i", "v", "a", "t", "e">>, <<"p", "r", "e", "f", "e", "r", "r", "e", "d">>, <<"d", "e", "a", "l">>,
               <<"p", "r", "o", "g", "r", "a", "m", "m", "a", "t", "i", "c", " ", "g", "u", "a", "r", "a", "n", "t", "e", "e", "d">>, <<"p", "g">>>>
OeTokens == <<<<"o", "e">>, <<"o", "p", "e", "n", " ", "e", "x", "c", "h", "a", "n", "g", "e">>, <<"o", "p", "e", "n">>, <<"o", "p", "e", "n", " ", "a", "u", "c", "t", "i", "o", "n">>>>

\* any(t in v for t in tokens)
AnyToken(v, tokens) == \E k \in 1..Len(tokens) : Contains(v, tokens[k])

\* a mutant of classify_channel: the OE tokens are tested before the PMP tokens
classify_channel_oe_first(value) ==
    IF value = Absent THEN None
    ELSE LET v == Lower(Strip(value[1]))
         IN IF v = <<>> THEN None
            ELSE IF AnyToken(v, OeTokens) THEN "OE"
            ELSE IF AnyToken(v, PmpTokens) THEN "PMP"
            ELSE None

classify_channel(value) ==
    IF value = Absent THEN None
    ELSE LET v == Lower(Strip(value[1]))
         IN IF v = <<>> THEN None
            ELSE IF AnyToken(v, PmpTokens) THEN "PMP"
            ELSE IF AnyToken(v, OeTokens) THEN "OE"
            ELSE None

\* ---- the labels tried: up to MaxFragments of these pieces, run together ----
MaxFragments == 3
Fragments == {<<" ">>, <<"p">>, <<"M">>, <<"g">>, <<"o", "E">>, <<"V", "i", "d", "e", "o">>,
              <<"P", "r", "i", "v", "a", "t", "e", " ", "M", "a", "r", "k", "e", "t", "p", "l", "a", "c", "e">>, <<"O", "p", "e", "n", " ", "E", "x", "c", "h", "a", "n", "g", "e">>,
              <<"O", "p", "e", "n", " ", "A", "u", "c", "t", "i", "o", "n", " ", "D", "e", "a", "l">>, <<"P", "r", "o", "g", "r", "a", "m", "m", "a", "t", "i", "c", " ", "G", "u", "a", "r", "a", "n", "t", "e", "e", "d">>,
              <<"P", "r", "e", "f", "e", "r", "r", "e", "d">>}
RECURSIVE Concat(_)
Concat(parts) == IF parts = <<>> THEN <<>> ELSE parts[1] \o Concat(Tail(parts))
ChannelLabels == {Concat(f) : f \in UNION {[1..n -> Fragments] : n \in 0..MaxFragments}}

InitChannel ==
    /\ pc = "call"
    /\ channel_label \in {Absent} \cup {Given(l) : l \in ChannelLabels}
    /\ channel_bucket = Idle
    /\ IdleUsd /\ IdleBlock /\ IdleDf /\ IdleTsv /\ IdleCell /\ IdleIngest

ClassifyChannel ==
    /\ pc = "call"
    /\ channel_bucket' = classify_channel(channel_label)
    /\ pc' = "done"
    /\ UNCHANGED <<channel_label, usdVars, blockVars, dfVars, tsvVars, cellVars, ingestVars>>

NextChannel == ClassifyChannel

SpecChannel == InitChannel /\ [][NextChannel]_vars

\* the keyword occurs as a substring of the trimmed, lower-cased label
HasKeyword(label, keywords) ==
    LET v == Lower(Strip(label))
    IN \E k \in keywords : \E i \in 1..Len(v) :
          i + Len(k) - 1 <= Len(v) /\ \A j \in 1..Len(k) : v[i + j - 1] = k[j]
PmpKeywords == {<<"p", "m", "p">>, <<"p", "r", "i", "v", "a", "t", "e">>, <<"p", "r", "e", "f", "e", "r", "r", "e", "d">>, <<"d", "e", "a", "l">>,
                <<"p", "r", "o", "g", "r", "a", "m", "m", "a", "t", "i", "c", " ", "g", "u", "a", "r", "a", "n", "t", "e", "e", "d">>, <<"p", "g">>}
OeKeywords == {<<"o", "e">>, <<"o", "p", "e", "n", " ", "e", "x", "c", "h", "a", "n", "g", "e">>, <<"o", "p", "e", "n">>, <<"o", "p", "e", "n", " ", "a", "u", "c", "t", "i", "o", "n">>}

\* C6: classify_channel is total and returns exactly one of PMP, OE or
\* unclassified: absent, empty or whitespace-only labels are unclassified; a
\* label whose trimmed lower-cased form contains a PMP keyword as a substring
\* is PMP, also when it contains an OE keyword; a label with an OE keyword and
\* no PMP keyword is OE; every other label is unclassified.
C6_ClassifyChannel ==
    pc = "done" =>
        /\ channel_bucket \in {"PMP", "OE", None}
        /\ channel_label = Absent => channel_bucket = None
        /\ channel_label # Absent =>
             LET label == channel_label[1]
                 blank == \A i \in 1..Len(label) : label[i] \in Whitespace
                 pmp == HasKeyword(label, PmpKeywords)
                 oe == HasKeyword(label, OeKeywords)
             IN /\ blank => channel_bucket = None
                /\ pmp => channel_bucket = "PMP"
                /\ (oe /\ ~pmp) => channel_bucket = "OE"
                /\ (~oe /\ ~pmp) => channel_bucket = None
                /\ label = <<"P", "r", "i", "v", "a", "t", "e", " ", "M", "a", "r", "k", "e", "t", "p", "l", "a", "c", "e">> => channel_bucket = "PMP"
                /\ label = <<"O", "p", "e", "n", " ", "E", "x", "c", "h", "a", "n", "g", "e">> => channel_bucket = "OE"
                /\ label = <<"V", "i", "d", "e", "o">> => channel_bucket = None

\* a label with whitespace to trim that holds both an OE and a PMP keyword
\* was classified
C6_Witness ==
    /\ pc = "done"
    /\ channel_label # Absent
    /\ HasKeyword(channel_label[1], OeKeywords)
    /\ HasKeyword(channel_label[1], PmpKeywords)
    /\ channel_bucket = "PMP"
    /\ Len(Strip(channel_label[1])) < Len(channel_label[1])

(***************************************************************************)
(* Type coercer: the Revenue column                                        *)
(*                                                                         *)
(* A number is [nan, num, exp]: num / 10^exp with exp as small as it can   *)
(* be, or NaN. A raw cell is its text in the file together with the dtype  *)
(* pd.read_csv gave its column: "object" (some cell of the column is not a *)
(* number, the text is kept), "int64" or "float64" (every cell is a        *)
(* number, or is empty in a float64 column).                               *)
(***************************************************************************)
NaN == [nan |-> TRUE, num |-> 0, exp |-> 0]
Zero == [nan |-> FALSE, num |-> 0, exp |-> 0]

DigitVal(ch) == CHOOSE d \in 0..9 : DigitChar(d) = ch

RECURSIVE ToInt(_)
ToInt(ds) == IF ds = <<>> THEN 0 ELSE ToInt(SubSeq(ds, 1, Len(ds) - 1)) * 10 + DigitVal(ds[Len(ds)])

RECURSIVE DropTrailingZeros(_)
DropTrailingZeros(ds) ==
    IF ds # <<>> /\ ds[Len(ds)] = "0" THEN DropTrailingZeros(SubSeq(ds, 1, Len(ds) - 1)) ELSE ds

\* the decimal literals a numeric parser takes here: an optional minus, then
\* digits with at most one point and at least one digit
IsDecimal(text) ==
    LET body == IF text # <<>> /\ text[1] = "-" THEN Tail(text) ELSE text
    IN /\ \A i \in 1..Len(body) : body[i] \in DigitChars \cup {"."}
       /\ Cardinality({i \in 1..Len(body) : body[i] = "."}) <= 1
       /\ \E i \in 1..Len(body) : body[i] \in DigitChars

\* the value of a decimal literal
DecimalValue(text) ==
    LET neg == text[1] = "-"
        body == IF neg THEN Tail(text) ELSE text
        dots == {i \in 1..Len(body) : body[i] = "."}
        dot == IF dots = {} THEN Len(body) + 1 ELSE CHOOSE i \in dots : TRUE
        frac == DropTrailingZeros(SubSeq(body, dot + 1, Len(body)))
        n == ToInt(SubSeq(body, 1, dot - 1) \o frac)
    IN [nan |-> FALSE, num |-> IF neg THEN -n ELSE n, exp |-> IF n = 0 THEN 0 ELSE Len(frac)]

\* pd.to_numeric(errors="coerce") on one string
to_numeric(text) == IF IsDecimal(text) THEN DecimalValue(text) ELSE NaN

\* str() of a float64: repr's shortest digits, in exponent notation when the
\* decimal exponent is below -4 (or from 16 up, beyond the numbers tried)
FloatStr(x) ==
    IF x.nan THEN <<"n", "a", "n">>
    ELSE IF x.num = 0 THEN <<"0", ".", "0">>
    ELSE
      LET sign == IF x.num < 0 THEN <<"-">> ELSE <<>>
          ds == Digits(Abs(x.num))
          e10 == Len(ds) - 1 - x.exp
          padded == Repeat("0", x.exp + 1 - Len(ds)) \o ds
          whole == SubSeq(padded, 1, Len(padded) - x.exp)
          frac == SubSeq(padded, Len(padded) - x.exp + 1, Len(padded))
          mantissa == IF Len(ds) = 1 THEN ds ELSE <<ds[1], ".">> \o Tail(ds)
          e2 == IF -e10 < 10 THEN <<"0">> \o Digits(-e10) ELSE Digits(-e10)
      IN IF e10 >= -4
         THEN sign \o whole \o <<".">> \o (IF frac = <<>> THEN <<"0">> ELSE frac)
         ELSE sign \o mantissa \o <<"e", "-">> \o e2

\* str() of an int64
IntStr(x) == (IF x.num < 0 THEN <<"-">> ELSE <<>>) \o Digits(Abs(x.num))

\* df["Revenue"].astype(str) on the cell pd.read_csv made of the text
AsTypeStr(cell) ==
    IF cell.dtype = "object" THEN (IF cell.text = <<>> THEN <<"n", "a", "n">> ELSE cell.text)
    ELSE IF cell.dtype = "int64" THEN IntStr(to_numeric(cell.text))
    ELSE FloatStr(to_numeric(cell.text))

\* .str.replace(r"[^0-9.\-]", "", regex=True)
StripNonNumeric(text) == SelectSeq(text, LAMBDA ch : ch \in DigitChars \cup {".", "-"})

\* the Revenue coercion of read_and_normalize on one cell
CoerceRevenue(cell) ==
    LET parsed == to_numeric(StripNonNumeric(AsTypeStr(cell)))
    IN IF parsed.nan THEN Zero ELSE parsed

\* ---- the cells tried: every text of up to MaxCell of these characters, and
\* the examples of the specification ----
MaxCell == 4
CellAlphabet == {"$", ",", "1", "0", ".", "-", "("}
ExampleCells == {<<"$", "1", ",", "2", "3", "4", ".", "5", "6">>, <<"-", "4", "2">>, <<"(", "5", "0", "0", ")">>, <<"n", "/", "a">>, <<"0", ".", "0", "0", "0", "0", "1">>, <<"5", "0", "0", "-">>}
CellTexts == UNION {[1..n -> CellAlphabet] : n \in 0..MaxCell} \cup ExampleCells
IsInteger(text) == IsDecimal(text) /\ \A i \in 1..Len(text) : text[i] # "."
RawCells ==
    {c \in [text : CellTexts, dtype : {"object", "int64", "float64"}] :
        /\ c.dtype = "int64" => IsInteger(c.text)
        /\ c.dtype = "float64" => (IsDecimal(c.text) \/ c.text = <<>>)}

InitCell ==
    /\ pc = "call"
    /\ raw_cell \in RawCells
    /\ revenue = Idle
    /\ IdleUsd /\ IdleBlock /\ IdleDf /\ IdleTsv /\ IdleChannel /\ IdleIngest

CoerceRevenueCell ==
    /\ pc = "call"
    /\ revenue' = CoerceRevenue(raw_cell)
    /\ pc' = "done"
    /\ UNCHANGED <<raw_cell, usdVars, blockVars, dfVars, tsvVars, channelVars, ingestVars>>

NextCell == CoerceRevenueCell

SpecCell == InitCell /\ [][NextCell]_vars

\* the text left when every character is stripped that is not a digit, a
\* decimal point or a leading minus sign (a minus before any digit or point)
StripToLeadingMinus(text) ==
    LET keep == {i \in 1..Len(text) :
                    \/ text[i] \in DigitChars \cup {"."}
                    \/ /\ text[i] = "-"
                       /\ \A j \in 1..(i - 1) : text[j] \notin DigitChars \cup {"."}}
        RECURSIVE Pick(_)
        Pick(i) == IF i > Len(text) THEN <<>>
                   ELSE (IF i \in keep THEN <<text[i]>> ELSE <<>>) \o Pick(i + 1)
    IN Pick(1)

Number(n, e) == [nan |-> FALSE, num |-> n, exp |-> e]

\* C7: revenue coercion yields, for every raw cell string, the number
\* obtained by stripping every character that is not a digit, a decimal
\* point or a leading minus sign and parsing the remainder as a decimal, an
\* empty or unparseable remainder yielding 0.0: "$1,234.56" gives 1234.56,
\* "-42" gives -42.0, "(500)" gives 500, "" or a non-numeric cell gives 0.0.
C7_RevenueCoercion ==
    pc = "done" =>
        LET kept == StripToLeadingMinus(raw_cell.text)
        IN /\ ~revenue.nan
           /\ revenue = (IF IsDecimal(kept) THEN DecimalValue(kept) ELSE Zero)
           /\ raw_cell.text = <<"$", "1", ",", "2", "3", "4", ".", "5", "6">> => revenue = Number(123456, 2)
           /\ raw_cell.text = <<"-", "4", "2">> => revenue = Number(-42, 0)
           /\ raw_cell.text = <<"(", "5", "0", "0", ")">> => revenue = Number(500, 0)
           /\ raw_cell.text \in {<<>>, <<"n", "/", "a">>} => revenue = Zero

(***************************************************************************)
(* Calendar bucketer                                                       *)
(***************************************************************************)
IsLeap(y) == (y % 4 = 0 /\ y % 100 # 0) \/ y % 400 = 0

\* Series.dt.days_in_month
DaysInMonth(y, m) ==
    IF m = 2 THEN (IF IsLeap(y) THEN 29 ELSE 28)
    ELSE IF m \in {4, 6, 9, 11} THEN 30 ELSE 31

\* the days from the eve of 1 January 2020 to the date: the difference of two
\* day numbers is the .days of the difference of two normalized timestamps
RECURSIVE DaysBeforeYear(_)
DaysBeforeYear(y) ==
    IF y <= 2020 THEN 0
    ELSE DaysBeforeYear(y - 1) + (IF IsLeap(y - 1) THEN 366 ELSE 365)
RECURSIVE DaysBeforeMonth(_, _)
DaysBeforeMonth(y, m) ==
    IF m <= 1 THEN 0 ELSE DaysBeforeMonth(y, m - 1) + DaysInMonth(y, m - 1)
DayNumber(t) == DaysBeforeYear(t.y) + DaysBeforeMonth(t.y, t.m) + t.d

\* the text a missing value has in a column of strings
NaNText == <<"NaN">>

TwoDigits(n) == IF n < 10 THEN <<"0">> \o Digits(n) ELSE Digits(n)
MonthAbbr(m) ==
    CASE m = 1 -> <<"J", "a", "n">> [] m = 2 -> <<"F", "e", "b">> [] m = 3 -> <<"M", "a", "r">> [] m = 4 -> <<"A", "p", "r">>
      [] m = 5 -> <<"M", "a", "y">> [] m = 6 -> <<"J", "u", "n">> [] m = 7 -> <<"J", "u", "l">> [] m = 8 -> <<"A", "u", "g">>
      [] m = 9 -> <<"S", "e", "p">> [] m = 10 -> <<"O", "c", "t">> [] m = 11 -> <<"N", "o", "v">> [] m = 12 -> <<"D", "e", "c">>

\* dt.dt.strftime("%Y-%m") and dt.dt.strftime("%b %Y"): missing for NaT
MonthKey(t) == IF t = NaT THEN NaNText ELSE Digits(t.y) \o <<"-">> \o TwoDigits(t.m)
MonthLabel(t) == IF t = NaT THEN NaNText ELSE MonthAbbr(t.m) \o <<" ">> \o Digits(t.y)

\* Series.clip(lower, upper)
Clip(x, lower, upper) == IF x < lower THEN lower ELSE IF x > upper THEN upper ELSE x

\* a mutant of W4Bucket: the day is not made 0-based before it is scaled
W4BucketOneBased(t) ==
    IF t = NaT THEN 1 ELSE Clip((t.d * 4) \div DaysInMonth(t.y, t.m) + 1, 1, 4)

\* (((day - 1) * 4) // dim + 1).fillna(1).clip(lower=1, upper=4).astype(int)
W4Bucket(t) ==
    IF t = NaT THEN 1 ELSE Clip(((t.d - 1) * 4) \div DaysInMonth(t.y, t.m) + 1, 1, 4)

\* add_four_week_in_month on a Dataset with rows: the annotated copy
add_four_week_in_month(frame) ==
    [i \in 1..Len(frame) |->
        LET dt == frame[i]["Date - EST"]
        IN WithColumn(WithColumn(WithColumn(frame[i],
               "_MonthKey", MonthKey(dt)),
               "_MonthLabel", MonthLabel(dt)),
               "_W4", <<"W">> \o Digits(W4Bucket(dt)))]

\* the earliest valid date of the frame: Series.min() skips NaT, and is NaT
\* when no date is valid
MinDate(frame) ==
    LET valid == {i \in 1..Len(frame) : frame[i]["Date - EST"] # NaT}
        first == CHOOSE i \in valid : \A j \in valid :
                    SortRank("Date - EST", frame[i]["Date - EST"])
                        <= SortRank("Date - EST", frame[j]["Date - EST"])
    IN IF valid = {} THEN NaT ELSE frame[first]["Date - EST"]

\* int(((d.normalize() - start.normalize()).days) // 7) + 1 for valid dates
week_index_relative(d, start) ==
    (DayNumber(Normalize(d)) - DayNumber(Normalize(start))) \div 7 + 1

\* with d or start NaT the difference is NaT, its .days is nan, and int(nan)
\* raises ValueError
WeekIndexRaises(d, start) == d = NaT \/ start = NaT

Raised(error) == [raised |-> TRUE, error |-> error, rows |-> <<>>]
Returned(rows) == [raised |-> FALSE, error |-> "", rows |-> rows]

add_relative_week(frame) ==
    LET start == MinDate(frame)
    IN IF \E i \in 1..Len(frame) : WeekIndexRaises(frame[i]["Date - EST"], start)
       THEN Raised("ValueError")
       ELSE Returned([i \in 1..Len(frame) |->
                WithColumn(frame[i], "_Week",
                    <<"W", "e", "e", "k", " ">> \o Digits(week_index_relative(frame[i]["Date - EST"], start)))])

\* appending column names that are not there yet
AddColumns(columns, new) ==
    columns \o SelectSeq(new, LAMBDA c : \A i \in 1..Len(columns) : columns[i] # c)

\* ---- the Datasets tried by the bucketing passes: one record per date ----
DatedRecord(date) == Record(date, "PMP deal", "Acme", "S1", "X", "d1", "c1", 1230)

\* every day of a month of 28, 29, 30 and 31 days, and the missing date
MonthsTried == {<<2023, 2>>, <<2024, 2>>, <<2024, 4>>, <<2024, 1>>}
MonthDates == {Day(ym[1], ym[2], d, 0) : ym \in MonthsTried, d \in 1..31} \cup {NaT}
ValidMonthDates == {t \in MonthDates : t = NaT \/ t.d <= DaysInMonth(t.y, t.m)}
\* the dates of the further records of a Dataset
MaxMoreRecords == 1
MoreDates == {NaT, Day(2024, 4, 15, 18)}
MonthDatasets ==
    {<<>>} \cup
    {<<DatedRecord(first)>> \o [i \in 1..n |-> DatedRecord(more[i])] :
        first \in ValidMonthDates, n \in 0..MaxMoreRecords, more \in [1..MaxMoreRecords -> MoreDates]}

InitMonth ==
    /\ pc = "call"
    /\ df \in MonthDatasets
    /\ df_columns = REQUIRED_COLUMNS
    /\ top_n = Idle
    /\ call = Call("add_four_week_in_month", None)
    /\ df_out = Idle
    /\ sections = Idle
    /\ IdleUsd /\ IdleBlock /\ IdleTsv /\ IdleChannel /\ IdleCell /\ IdleIngest

dfFrame == <<usdVars, blockVars, tsvVars, channelVars, cellVars, ingestVars>>

\* on a Dataset without rows the three columns are added to the caller's
\* Dataset itself, which is returned; otherwise to a copy
AddFourWeekInMonth ==
    /\ pc = "call"
    /\ call.fn = "add_four_week_in_month"
    /\ IF df = <<>>
       THEN /\ df_columns' = AddColumns(df_columns, <<"_MonthKey", "_MonthLabel", "_W4">>)
            /\ df_out' = Returned(<<>>)
       ELSE /\ df_columns' = df_columns
            /\ df_out' = Returned(add_four_week_in_month(df))
    /\ pc' = "done"
    /\ UNCHANGED <<df, top_n, call, sections, dfFrame>>

NextMonth == AddFourWeekInMonth

SpecMonth == InitMonth /\ [][NextMonth]_vars

\* C8: four-per-month bucketing: for every day_of_month d in a month of n
\* days (28..31) the bucket is clamp(floor((d - 1) * 4 / n) + 1, 1, 4),
\* labelled W1..W4, and in a 30-day month day 1 is W1, day 15 is W3 and day
\* 30 is W4.
C8_FourPerMonth ==
    pc = "done" =>
        \A i \in 1..Len(df) :
            LET t == df[i]["Date - EST"]
                n == DaysInMonth(t.y, t.m)
                w == df_out.rows[i]["_W4"]
            IN t # NaT =>
                /\ w = <<"W">> \o Digits(Clip(((t.d - 1) * 4) \div n + 1, 1, 4))
                /\ (n = 30 /\ t.d = 1) => w = <<"W", "1">>
                /\ (n = 30 /\ t.d = 15) => w = <<"W", "3">>
                /\ (n = 30 /\ t.d = 30) => w = <<"W", "4">>

\* C8 as amended: the bucket b of day d in a month of n days is the one of
\* 1..4 with (b - 1) * n <= 4 * (d - 1) < b * n, labelled W1..W4, and in a
\* 30-day month day 1 is W1, day 15 is W2 (floor(56 / 30) + 1 = 2), day 16 is
\* the first day of W3 and day 30 is W4.
C8_FourPerMonthDay15IsW2 ==
    pc = "done" =>
        \A i \in 1..Len(df) :
            LET t == df[i]["Date - EST"]
                n == DaysInMonth(t.y, t.m)
                w == df_out.rows[i]["_W4"]
            IN t # NaT =>
                /\ \E b \in 1..4 : /\ w = <<"W">> \o Digits(b)
                                   /\ (b - 1) * n <= 4 * (t.d - 1)
                                   /\ 4 * (t.d - 1) < b * n
                /\ (n = 30 /\ t.d = 1) => w = <<"W", "1">>
                /\ (n = 30 /\ t.d = 15) => w = <<"W", "2">>
                /\ (n = 30 /\ t.d = 16) => w = <<"W", "3">>
                /\ (n = 30 /\ t.d = 30) => w = <<"W", "4">>

\* day 15 of a 30-day month was bucketed, in a Dataset that also holds a
\* record without a date
C8_Witness ==
    /\ pc = "done"
    /\ Len(df) = 2
    /\ df[1]["Date - EST"] = Day(2024, 4, 15, 0)
    /\ df[2]["Date - EST"] = NaT
    /\ df_out.rows[1]["_W4"] = <<"W", "2">>
    /\ df_out.rows[2]["_W4"] = <<"W", "1">>

\* ---- the Datasets tried by the week pass: up to MaxWeekRecords records
\* dated in the first WeekDays days of 2024, at midnight or 18:00, or undated
MaxWeekRecords == 2
WeekDays == 15
WeekDates == {Day(2024, 1, d, h) : d \in 1..WeekDays, h \in {0, 18}} \cup {NaT}
WeekDatasets == UNION {[1..n -> {DatedRecord(t) : t \in WeekDates}] : n \in 0..MaxWeekRecords}

InitWeek ==
    /\ pc = "call"
    /\ df \in WeekDatasets
    /\ df_columns = REQUIRED_COLUMNS
    /\ top_n = Idle
    /\ call = Call("add_relative_week", None)
    /\ df_out = Idle
    /\ sections = Idle
    /\ IdleUsd /\ IdleBlock /\ IdleTsv /\ IdleChannel /\ IdleCell /\ IdleIngest

\* on a Dataset without rows the column is added to the caller's Dataset
\* itself, which is returned; otherwise to a copy
AddRelativeWeek ==
    /\ pc = "call"
    /\ call.fn = "add_relative_week"
    /\ IF df = <<>>
       THEN /\ df_columns' = AddColumns(df_columns, <<"_Week">>)
            /\ df_out' = Returned(<<>>)
       ELSE /\ df_columns' = df_columns
            /\ df_out' = add_relative_week(df)
    /\ pc' = "done"
    /\ UNCHANGED <<df, top_n, call, sections, dfFrame>>

NextWeek == AddRelativeWeek

SpecWeek == InitWeek /\ [][NextWeek]_vars

\* the whole days from the earliest valid date of the Dataset to the date
DaysFromMinimum(t) ==
    LET valid == {df[j]["Date - EST"] : j \in 1..Len(df)} \ {NaT}
        days == {DayNumber(v) : v \in valid}
    IN DayNumber(t) - (CHOOSE m \in days : \A o \in days : m <= o)

\* C9: week-relative bucketing: for every record of a non-empty Dataset, a
\* record with the invalid/missing date included, the pass completes without
\* raising and assigns week index floor(days between the record's date and
\* the Dataset's minimum date, both at midnight, / 7) + 1, always >= 1; the
\* record at the minimum date is Week 1 and a record 7 days later is Week 2.
C9_RelativeWeek ==
    (pc = "done" /\ df # <<>>) =>
        /\ ~df_out.raised
        /\ Len(df_out.rows) = Len(df)
        /\ \A i \in 1..Len(df) :
             LET t == df[i]["Date - EST"]
             IN t # NaT =>
                  \E w \in 1..(WeekDays + 7) :
                     /\ df_out.rows[i]["_Week"] = <<"W", "e", "e", "k", " ">> \o Digits(w)
                     /\ 7 * (w - 1) <= DaysFromMinimum(t)
                     /\ DaysFromMinimum(t) < 7 * w
                     /\ DaysFromMinimum(t) = 0 => w = 1
                     /\ DaysFromMinimum(t) = 7 => w = 2

(***************************************************************************)
(* Column Normalizer: _canonicalize, _build_column_map and the header      *)
(* handling of read_and_normalize.  Headers are sequences of characters.   *)
(***************************************************************************)
\* the characters of a canonical column name
Chars(c) ==
    CASE c = "Date - EST" -> <<"D", "a", "t", "e", " ", "-", " ", "E", "S", "T">>
      [] c = "RTB Channel" -> <<"R", "T", "B", " ", "C", "h", "a", "n", "n", "e", "l">>
      [] c = "RTB Advertiser" -> <<"R", "T", "B", " ", "A", "d", "v", "e", "r", "t", "i", "s", "e", "r">>
      [] c = "RTB SSP" -> <<"R", "T", "B", " ", "S", "S", "P">>
      [] c = "System" -> <<"S", "y", "s", "t", "e", "m">>
      [] c = "RTB Deal ID" -> <<"R", "T", "B", " ", "D", "e", "a", "l", " ", "I", "D">>
      [] c = "RTB Creative ID" -> <<"R", "T", "B", " ", "C", "r", "e", "a", "t", "i", "v", "e", " ", "I", "D">>
      [] c = "Revenue" -> <<"R", "e", "v", "e", "n", "u", "e">>

\* re.sub(r"[^0-9a-z]+", " ", s): every run of other characters becomes one space
RECURSIVE SubNonAlnum(_, _)
SubNonAlnum(s, i) ==
    IF i > Len(s) THEN <<>>
    ELSE IF s[i] \in LowerChars \cup DigitChars THEN <<s[i]>> \o SubNonAlnum(s, i + 1)
    ELSE IF i > 1 /\ s[i - 1] \notin LowerChars \cup DigitChars THEN SubNonAlnum(s, i + 1)
    ELSE <<" ">> \o SubNonAlnum(s, i + 1)

\* strip, lower, runs of non-alphanumerics to one space, strip
_canonicalize(col) == Strip(SubNonAlnum(Lower(Strip(col)), 1))

\* {_canonicalize(c): c for c in cols}: the last header of a key wins
incoming(cols) ==
    [key \in {_canonicalize(cols[i]) : i \in 1..Len(cols)} |->
        LET at == {i \in 1..Len(cols) : _canonicalize(cols[i]) = key}
        IN cols[CHOOSE i \in at : \A j \in at : j <= i]]

\* the aliases of each canonical column, in priority order
candidates(c) ==
    CASE c = "Date - EST" -> <<<<"d", "a", "t", "e", " ", "e", "s", "t">>, <<"d", "a", "t", "e">>>>
      [] c = "RTB Channel" -> <<<<"r", "t", "b", " ", "c", "h", "a", "n", "n", "e", "l">>, <<"c", "h", "a", "n", "n", "e", "l">>>>
      [] c = "RTB Advertiser" -> <<<<"r", "t", "b", " ", "a", "d", "v", "e", "r", "t", "i", "s", "e", "r">>, <<"a", "d", "v", "e", "r", "t", "i", "s", "e", "r">>>>
      [] c = "RTB SSP" -> <<<<"r", "t", "b", " ", "s", "s", "p">>, <<"s", "s", "p">>>>
      [] c = "System" -> <<<<"s", "y", "s", "t", "e", "m">>>>
      [] c = "RTB Deal ID" -> <<<<"r", "t", "b", " ", "d", "e", "a", "l", " ", "i", "d">>, <<"d", "e", "a", "l", " ", "i", "d">>, <<"d", "e", "a", "l">>>>
      [] c = "RTB Creative ID" -> <<<<"r", "t", "b", " ", "c", "r", "e", "a", "t", "i", "v", "e", " ", "i", "d">>, <<"c", "r", "e", "a", "t", "i", "v", "e", " ", "i", "d">>, <<"c", "r", "e", "a", "t", "i", "v", "e">>>>
      [] c = "Revenue" -> <<<<"r", "e", "v", "e", "n", "u", "e">>, <<"r", "e", "v">>, <<"a", "m", "o", "u", "n", "t">>>>

Range(s) == {s[i] : i \in 1..Len(s)}

\* the canonical columns that have an alias among the headers, each mapped
\* to the header of its first alias found
_build_column_map(cols) ==
    LET inc == incoming(cols)
        hits(c) == {k \in 1..Len(candidates(c)) : candidates(c)[k] \in DOMAIN inc}
    IN [c \in {c \in Range(REQUIRED_COLUMNS) : hits(c) # {}} |->
           inc[candidates(c)[CHOOSE k \in hits(c) : \A j \in hits(c) : k <= j]]]

\* the outcome of read_and_normalize: an exception, or the columns of the
\* returned Dataset
Failed(error, message) == [raised |-> TRUE, error |-> error, message |-> message, columns |-> <<>>]
Normalized(columns) == [raised |-> FALSE, error |-> "", message |-> <<>>, columns |-> columns]

\* the loop of df.rename(columns={mapping[canonical]: canonical}) over
\* REQUIRED_COLUMNS from the k-th on: a canonical name already among the
\* columns is left alone; rename relabels every column of the old name
RECURSIVE RenameFrom(_, _, _)
RenameFrom(columns, mapping, k) ==
    IF k > Len(REQUIRED_COLUMNS) THEN columns
    ELSE LET canonical == REQUIRED_COLUMNS[k]
         IN IF Chars(canonical) \in Range(columns)
            THEN RenameFrom(columns, mapping, k + 1)
            ELSE IF canonical \in DOMAIN mapping
            THEN RenameFrom([i \in 1..Len(columns) |->
                                IF columns[i] = mapping[canonical] THEN Chars(canonical) ELSE columns[i]],
                            mapping, k + 1)
            ELSE RenameFrom(columns, mapping, k + 1)

\* df[name] is a DataFrame, not a Series, when several columns bear the name
IsFrame(columns, name) == Cardinality({i \in 1..Len(columns) : columns[i] = Chars(name)}) > 1

\* the type coercions, seen from the columns: pd.to_datetime of a DataFrame
\* with duplicate keys raises ValueError, and a DataFrame has no .str
CoerceTypes(columns) ==
    IF IsFrame(columns, "Date - EST")
    THEN Failed("ValueError", <<"c", "a", "n", "n", "o", "t", " ", "a", "s", "s", "e", "m", "b", "l", "e", " ", "w", "i", "t", "h", " ", "d", "u", "p", "l", "i", "c", "a", "t", "e", " ", "k", "e", "y", "s">>)
    ELSE IF \E k \in 2..Len(REQUIRED_COLUMNS) : IsFrame(columns, REQUIRED_COLUMNS[k])
    THEN Failed("AttributeError", <<"'", "D", "a", "t", "a", "F", "r", "a", "m", "e", "'", " ", "o", "b", "j", "e", "c", "t", " ", "h", "a", "s", " ", "n", "o", " ", "a", "t", "t", "r", "i", "b", "u", "t", "e", " ", "'", "s", "t", "r", "'">>)
    ELSE Normalized(columns)

\* the source is its headers and its number of rows
read_and_normalize(source) ==
    IF source.rows = 0 \/ source.columns = <<>> THEN Normalized(source.columns)
    ELSE LET columns == [i \in 1..Len(source.columns) |-> Strip(source.columns[i])]
             mapping == _build_column_map(columns)
             missing == SelectSeq(REQUIRED_COLUMNS, LAMBDA c : c \notin DOMAIN mapping)
             still_missing == SelectSeq(missing, LAMBDA c : Chars(c) \notin Range(columns))
         IN IF still_missing # <<>>
            THEN Failed("ValueError", <<"M", "i", "s", "s", "i", "n", "g", " ", "r", "e", "q", "u", "i", "r", "e", "d", " ", "c", "o", "l", "u", "m", "n", "s", ":", " ">>
                           \o Join([i \in 1..Len(still_missing) |-> Chars(still_missing[i])], <<",", " ">>))
            ELSE CoerceTypes(RenameFrom(columns, mapping, 1))

\* ---- the sources tried: for each canonical column the source has no
\* header, the verbatim header, an alias in some spelling, or two headers
HeaderChoices ==
    << {<<>>, <<<<"D", "a", "t", "e", " ", "-", " ", "E", "S", "T">>>>, <<<<" ", "d", "a", "t", "e">>>>, <<<<"D", "a", "t", "e">>, <<"D", "A", "T", "E", "_", "E", "S", "T">>>>},
       {<<>>, <<<<"R", "T", "B", " ", "C", "h", "a", "n", "n", "e", "l">>>>, <<<<"C", "h", "a", "n", "n", "e", "l">>>>},
       {<<>>, <<<<"R", "T", "B", " ", "A", "d", "v", "e", "r", "t", "i", "s", "e", "r">>>>, <<<<"a", "d", "v", "e", "r", "t", "i", "s", "e", "r", " ">>>>},
       {<<>>, <<<<"r", "t", "b", "-", "s", "s", "p">>>>},
       {<<>>, <<<<"S", "y", "s", "t", "e", "m">>>>},
       {<<>>, <<<<"R", "T", "B", " ", "D", "e", "a", "l", " ", "I", "D">>>>, <<<<"D", "e", "a", "l">>, <<"d", "e", "a", "l", " ", "i", "d">>>>},
       {<<<<"R", "T", "B", " ", "C", "r", "e", "a", "t", "i", "v", "e", " ", "I", "D">>>>, <<<<"C", "r", "e", "a", "t", "i", "v", "e", ".", "I", "D">>>>},
       {<<>>, <<<<"R", "e", "v", "e", "n", "u", "e">>>>, <<<<"R", "e", "v", " ", "(", "$", ")">>>>, <<<<"R", "e", "v", "e", "n", "u", "e">>, <<"R", "e", "v", "e", "n", "u", "e", " ">>>>, <<<<"a", "m", "o", "u", "n", "t">>, <<" ", "a", "m", "o", "u", "n", "t">>>>} >>

Sources ==
    {[columns |-> h1 \o h2 \o h3 \o h4 \o h5 \o h6 \o h7 \o h8, rows |-> n] :
        h1 \in HeaderChoices[1], h2 \in HeaderChoices[2], h3 \in HeaderChoices[3],
        h4 \in HeaderChoices[4], h5 \in HeaderChoices[5], h6 \in HeaderChoices[6],
        h7 \in HeaderChoices[7], h8 \in HeaderChoices[8], n \in {0, 1}}

InitIngest ==
    /\ pc = "call"
    /\ uploaded \in Sources
    /\ ingest_result = Idle
    /\ IdleUsd /\ IdleBlock /\ IdleDf /\ IdleTsv /\ IdleChannel /\ IdleCell

ReadAndNormalize ==
    /\ pc = "call"
    /\ ingest_result' = read_and_normalize(uploaded)
    /\ pc' = "done"
    /\ UNCHANGED <<uploaded, usdVars, blockVars, dfVars, tsvVars, channelVars, cellVars>>

NextIngest == ReadAndNormalize

SpecIngest == InitIngest /\ [][NextIngest]_vars

\* the canonical columns with neither a verbatim header nor a header whose
\* normal form is one of the column's aliases
Unresolved ==
    SelectSeq(REQUIRED_COLUMNS, LAMBDA c :
        /\ Chars(c) \notin Range(uploaded.columns)
        /\ \A i \in 1..Len(uploaded.columns) :
              _canonicalize(uploaded.columns[i]) \notin Range(candidates(c)))

\* C10: column normalization of a non-empty source either fully succeeds or
\* fully fails: if a required canonical column has neither a verbatim header
\* nor an alias among the raw headers, read_and_normalize fails with an error
\* that names every unresolved column and returns no Dataset; otherwise the
\* returned Dataset has all 8 canonical column names.
C10_AllOrNothing ==
    (pc = "done" /\ uploaded.rows > 0 /\ uploaded.columns # <<>>) =>
        IF Unresolved # <<>>
        THEN /\ ingest_result.raised
             /\ ingest_result.columns = <<>>
             /\ \A k \in 1..Len(Unresolved) : Contains(ingest_result.message, Chars(Unresolved[k]))
        ELSE /\ ~ingest_result.raised
             /\ \A k \in 1..Len(REQUIRED_COLUMNS) :
                   Chars(REQUIRED_COLUMNS[k]) \in Range(ingest_result.columns)

(***************************************************************************)
(* The channel views and the period reports over a Dataset.  A function    *)
(* gets the rows of the Dataset and its column names (an empty Dataset     *)
(* still has columns); its outcome is Returned(value) or Raised(error).    *)
(***************************************************************************)
\* the characters of the RTB Channel strings of the Datasets tried
ChannelChars(v) ==
    CASE v = "PMP deal" -> <<"P", "M", "P", " ", "d", "e", "a", "l">>
      [] v = "Open Exchange" -> <<"O", "p", "e", "n", " ", "E", "x", "c", "h", "a", "n", "g", "e">>
      [] v = "Video" -> <<"V", "i", "d", "e", "o">>
      [] v = "" -> <<>>

HasColumn(columns, c) == \E i \in 1..Len(columns) : columns[i] = c

\* a Dataset that has the _ChannelBucket column is returned as it is; df[c]
\* of a column that is not there raises KeyError
ensure_channel_bucket(frame, columns) ==
    IF HasColumn(columns, "_ChannelBucket") THEN Returned(frame)
    ELSE IF ~HasColumn(columns, "RTB Channel") THEN Raised("KeyError")
    ELSE Returned([i \in 1..Len(frame) |->
            WithColumn(frame[i], "_ChannelBucket",
                       classify_channel(Given(ChannelChars(frame[i]["RTB Channel"]))))])

\* dfb.loc[dfb["_ChannelBucket"] == channel]
OfChannel(rows, channel) == SelectSeq(rows, LAMBDA row : row["_ChannelBucket"] = channel)

total_by_channel(frame, columns, channel) ==
    LET dfb == ensure_channel_bucket(frame, columns)
    IN IF dfb.raised THEN dfb
       ELSE IF ~HasColumn(columns, "Revenue") THEN Raised("KeyError")
       ELSE Returned(TotalRevenue(OfChannel(dfb.rows, channel)))

\* groupby(["RTB Advertiser"], dropna=False)["Revenue"].sum() sorted by
\* Revenue, largest first, as (advertiser, revenue) pairs
AdvertiserPairs(rows) ==
    LET g == SortByRevenueDesc(GroupedSums(rows, <<"RTB Advertiser">>))
    IN [i \in 1..Len(g) |-> <<g[i].key[1], g[i].Revenue>>]

pairs_advertiser_by_channel(frame, columns, channel) ==
    LET dfb == ensure_channel_bucket(frame, columns)
    IN IF dfb.raised THEN dfb
       ELSE IF ~HasColumn(columns, "RTB Advertiser") \/ ~HasColumn(columns, "Revenue")
       THEN Raised("KeyError")
       ELSE Returned(AdvertiserPairs(OfChannel(dfb.rows, channel)))

\* the rows whose column col holds value
Where(rows, col, value) == SelectSeq(rows, LAMBDA row : row[col] = value)

\* week label -> the (advertiser, revenue) pairs of the week; {} is <<>>
advertiser_by_week_pairs(frame, columns, channel) ==
    IF frame = <<>> THEN Returned(<<>>)
    ELSE LET dfb == ensure_channel_bucket(frame, columns)
         IN IF dfb.raised THEN dfb
            ELSE LET dfw == add_relative_week(dfb.rows)
                 IN IF dfw.raised THEN dfw
                    ELSE LET rows == OfChannel(dfw.rows, channel)
                             weeks == {rows[i]["_Week"] : i \in 1..Len(rows)}
                         IN Returned([wk \in weeks |-> AdvertiserPairs(Where(rows, "_Week", wk))])

\* (months, data): month key -> month label, and month key -> W-bucket ->
\* the (advertiser, revenue) pairs.  The first groupby keeps a missing key
\* (dropna=False); the groupby that is iterated has the default dropna=True
\* and leaves out every group whose _MonthKey or _MonthLabel is missing
advertiser_by_month_week4_pairs(frame, columns, channel) ==
    IF frame = <<>> THEN Returned([months |-> <<>>, data |-> <<>>])
    ELSE LET dfb == ensure_channel_bucket(frame, columns)
         IN IF dfb.raised THEN dfb
            ELSE LET rows == OfChannel(add_four_week_in_month(dfb.rows), channel)
                     kept == SelectSeq(rows, LAMBDA row :
                                 row["_MonthKey"] # NaNText /\ row["_MonthLabel"] # NaNText)
                     mkeys == {kept[i]["_MonthKey"] : i \in 1..Len(kept)}
                     of(mkey) == Where(kept, "_MonthKey", mkey)
                 IN Returned(
                      [months |-> [mkey \in mkeys |-> of(mkey)[Len(of(mkey))]["_MonthLabel"]],
                       data |-> [mkey \in mkeys |->
                                   [w4 \in {of(mkey)[i]["_W4"] : i \in 1..Len(of(mkey))} |->
                                       AdvertiserPairs(Where(of(mkey), "_W4", w4))]]])

\* ---- the Datasets tried by the reports ----
MaxReportRecords == 2
ReportRecords ==
    {Record(t, ch, adv, "S1", "X", "d1", "c1", r) :
        t \in {Day(2024, 1, 1, 0), Day(2024, 2, 10, 18), NaT},
        ch \in {"PMP deal", "Open Exchange", "Video"},
        adv \in {"Acme", "Beta"},
        r \in {1230, 4}}
ReportDatasets == UNION {[1..n -> ReportRecords] : n \in 1..MaxReportRecords}

\* the header rows of the sources without rows: the canonical names, and
\* rows with an alias in the place of a canonical name
EmptyHeaders ==
    LET canon == [i \in 1..Len(REQUIRED_COLUMNS) |-> Chars(REQUIRED_COLUMNS[i])]
    IN {canon,
        [canon EXCEPT ![2] = <<"C", "h", "a", "n", "n", "e", "l">>],
        [canon EXCEPT ![3] = <<"a", "d", "v", "e", "r", "t", "i", "s", "e", "r", " ">>],
        [canon EXCEPT ![8] = <<"R", "e", "v", " ", "(", "$", ")">>],
        [canon EXCEPT ![1] = <<" ", "d", "a", "t", "e">>, ![2] = <<"C", "h", "a", "n", "n", "e", "l">>, ![8] = <<"R", "e", "v", " ", "(", "$", ")">>]}

\* the column name of a header
ColumnLabel(h) ==
    CASE h = <<"C", "h", "a", "n", "n", "e", "l">> -> "Channel"
      [] h = <<"a", "d", "v", "e", "r", "t", "i", "s", "e", "r", " ">> -> "advertiser "
      [] h = <<"R", "e", "v", " ", "(", "$", ")">> -> "Rev ($)"
      [] h = <<" ", "d", "a", "t", "e">> -> " date"
      [] OTHER -> CHOOSE c \in Range(REQUIRED_COLUMNS) : Chars(c) = h

\* the columns of the Dataset read_and_normalize returns for a source
\* without rows
EmptyColumns ==
    {LET columns == read_and_normalize([columns |-> h, rows |-> 0]).columns
     IN [i \in 1..Len(columns) |-> ColumnLabel(columns[i])] : h \in EmptyHeaders}

Calls ==
    {Call(fn, None) : fn \in {"compute_sections", "ensure_channel_bucket",
                              "add_relative_week", "add_four_week_in_month"}}
    \cup {Call(fn, channel) :
            fn \in {"total_by_channel", "pairs_advertiser_by_channel",
                    "advertiser_by_week_pairs", "advertiser_by_month_week4_pairs"},
            channel \in {"PMP", "OE"}}

\* a Dataset with rows went through read_and_normalize and has the canonical
\* columns; one without rows has the columns of its source
InitReport ==
    /\ pc = "call"
    /\ \/ df \in ReportDatasets /\ df_columns = REQUIRED_COLUMNS
       \/ df = <<>> /\ df_columns \in EmptyColumns
    /\ top_n = 25
    /\ call \in Calls
    /\ df_out = Idle
    /\ sections = Idle
    /\ IdleUsd /\ IdleBlock /\ IdleTsv /\ IdleChannel /\ IdleCell /\ IdleIngest

\* a function that works on a copy: the caller's Dataset is not assigned to
Returns(fn, outcome) ==
    /\ pc = "call"
    /\ call.fn = fn
    /\ df_out' = outcome
    /\ pc' = "done"
    /\ UNCHANGED <<df, df_columns, top_n, call, sections, dfFrame>>

EnsureChannelBucket ==
    Returns("ensure_channel_bucket", ensure_channel_bucket(df, df_columns))

TotalByChannel ==
    Returns("total_by_channel", total_by_channel(df, df_columns, call.channel))

PairsAdvertiserByChannel ==
    Returns("pairs_advertiser_by_channel", pairs_advertiser_by_channel(df, df_columns, call.channel))

AdvertiserByWeekPairs ==
    Returns("advertiser_by_week_pairs", advertiser_by_week_pairs(df, df_columns, call.channel))

AdvertiserByMonthWeek4Pairs ==
    Returns("advertiser_by_month_week4_pairs",
            advertiser_by_month_week4_pairs(df, df_columns, call.channel))

NextReport ==
    \/ ComputeSections
    \/ EnsureChannelBucket
    \/ AddRelativeWeek
    \/ AddFourWeekInMonth
    \/ TotalByChannel
    \/ PairsAdvertiserByChannel
    \/ AdvertiserByWeekPairs
    \/ AdvertiserByMonthWeek4Pairs

SpecReport == InitReport /\ [][NextReport]_vars

\* the value a function returned is empty: no rows, no pairs, no sections,
\* no week or month, or the total 0
IsEmptyResult ==
    IF call.fn = "compute_sections" THEN sections = <<>>
    ELSE /\ ~df_out.raised
         /\ IF call.fn = "total_by_channel" THEN df_out.rows = 0
            ELSE IF call.fn = "advertiser_by_month_week4_pairs"
            THEN df_out.rows.months = <<>> /\ df_out.rows.data = <<>>
            ELSE df_out.rows = <<>>

\* C11: empty Dataset: when the ingested source has zero rows (the zero-row
\* Dataset that read_and_normalize returns without mapping its headers
\* included), every summary/report function - compute_sections,
\* total_by_channel, pairs_advertiser_by_channel, advertiser_by_week_pairs,
\* advertiser_by_month_week4_pairs, add_relative_week, add_four_week_in_month -
\* returns an empty structure and never raises.
C11_EmptyDataset ==
    (pc = "done" /\ df = <<>> /\ call.fn # "ensure_channel_bucket") => IsEmptyResult

\* C12: the engine never mutates a Dataset it did not itself copy: after any
\* call of ensure_channel_bucket, add_relative_week, add_four_week_in_month,
\* compute_sections, total_by_channel, pairs_advertiser_by_channel,
\* advertiser_by_week_pairs or advertiser_by_month_week4_pairs the caller's
\* Dataset, empty or not, has exactly the columns and values it had before
\* the call; the derived columns exist only on the returned copy.
C12_CallerDatasetUnchanged ==
    [][pc = "call" => (df' = df /\ df_columns' = df_columns)]_vars

\* the records of an advertiser, and those of them of one SSP
RecordsOf(advertiser) == Where(df, "RTB Advertiser", advertiser)
RecordsOfSsp(advertiser, ssp) == Where(RecordsOf(advertiser), "RTB SSP", ssp)
Advertisers == {df[i]["RTB Advertiser"] : i \in 1..Len(df)}

\* the "By RTB Advertiser" table, given what the Revenue of an advertiser's
\* row has to be: one row per advertiser, of that Revenue, with an SSP of the
\* largest sum among the advertiser's SSPs, rows in non-increasing Revenue
\* order, the top_n first of them
ByAdvertiserTable(RowRevenue(_)) ==
    LET rows == sections["By RTB Advertiser"]
    IN /\ Len(rows) = Min(top_n, Cardinality(Advertisers))
       /\ \A i, j \in 1..Len(rows) : rows[i].key[1] = rows[j].key[1] => i = j
       /\ \A i \in 1..Len(rows) :
             LET advertiser == rows[i].key[1]
                 ssp == rows[i].key[2]
             IN /\ advertiser \in Advertisers
                /\ rows[i].Revenue = RowRevenue(advertiser)
                /\ RecordsOfSsp(advertiser, ssp) # <<>>
                /\ \A k \in 1..Len(RecordsOf(advertiser)) :
                      TotalRevenue(RecordsOfSsp(advertiser, RecordsOf(advertiser)[k]["RTB SSP"]))
                         <= TotalRevenue(RecordsOfSsp(advertiser, ssp))
       /\ \A i \in 1..(Len(rows) - 1) : rows[i].Revenue >= rows[i + 1].Revenue
       /\ \A a \in Advertisers :
             \/ \E i \in 1..Len(rows) : rows[i].key[1] = a
             \/ RowRevenue(a) <= rows[Len(rows)].Revenue

AdvertiserTotal(advertiser) == TotalRevenue(RecordsOf(advertiser))
AdvertiserTotalRounded(advertiser) == Round2(TotalRevenue(RecordsOf(advertiser)))

\* C13: in the "By RTB Advertiser" table of compute_sections every
\* advertiser appears in exactly one row (before the row cap), the row's
\* Revenue is the advertiser's total over all its records, the row's SSP is
\* one whose advertiser-by-SSP revenue sum is greater than or equal to the
\* sum of every other SSP of that advertiser; the rows are in non-increasing
\* Revenue order and at most top_n of them are returned.
C13_ByAdvertiser ==
    (pc = "done" /\ df # <<>>) => ByAdvertiserTable(AdvertiserTotal)

\* C13 as amended: the row's Revenue is the advertiser's total rounded to 2
\* decimals (half to even); the rest as claimed.
C13_ByAdvertiserRounded ==
    (pc = "done" /\ df # <<>>) => ByAdvertiserTable(AdvertiserTotalRounded)

\* a table of two advertisers was built, one of which has two SSPs of
\* different sums and a total that is not in whole cents
C13_Witness ==
    /\ pc = "done" /\ df # <<>> /\ top_n = 25
    /\ Len(sections["By RTB Advertiser"]) = 2
    /\ \E a \in Advertisers :
          /\ AdvertiserTotal(a) % 10 # 0
          /\ TotalRevenue(RecordsOfSsp(a, "S1")) > TotalRevenue(RecordsOfSsp(a, "S2"))
          /\ RecordsOfSsp(a, "S2") # <<>>
          /\ RecordsOfSsp(a, "S1") # <<>>

\* the sum of the amounts of a list of (advertiser, revenue) pairs
RECURSIVE SumPairs(_)
SumPairs(pairs) == IF pairs = <<>> THEN 0 ELSE pairs[1][2] + SumPairs(Tail(pairs))

\* the sum of f[x] over the domain of a function of numbers
RECURSIVE SumOver(_)
SumOver(f) ==
    IF DOMAIN f = {} THEN 0
    ELSE LET x == CHOOSE x \in DOMAIN f : TRUE
         IN f[x] + SumOver([y \in DOMAIN f \ {x} |-> f[y]])

\* the sum of all amounts over all months and W-buckets of the data returned
SumOfData(data) ==
    SumOver([mkey \in DOMAIN data |->
                SumOver([w4 \in DOMAIN data[mkey] |-> SumPairs(data[mkey][w4])])])

\* the caller's records of the channel of the call
ChannelRecords ==
    SelectSeq(df, LAMBDA row :
        classify_channel(Given(ChannelChars(row["RTB Channel"]))) = call.channel)

\* C14: no record is silently dropped by the month/four-bucket report: for
\* every non-empty Dataset and channel in {PMP, OE}, every record of the
\* channel, a record with the invalid/missing date included (it is placed in
\* bucket W1), contributes to exactly one (month key, W-bucket) list returned
\* by advertiser_by_month_week4_pairs, so the sum of all amounts over all
\* months and buckets equals total_by_channel for that channel.
C14_NoRecordDropped ==
    (pc = "done" /\ df # <<>> /\ call.fn = "advertiser_by_month_week4_pairs") =>
        /\ ~df_out.raised
        /\ SumOfData(df_out.rows.data) = total_by_channel(df, df_columns, call.channel).rows
        /\ SumOfData(df_out.rows.data) = TotalRevenue(ChannelRecords)
        /\ \A i \in 1..Len(ChannelRecords) :
              \E mkey \in DOMAIN df_out.rows.data :
                 /\ mkey = MonthKey(ChannelRecords[i]["Date - EST"])
                 /\ \E w4 \in DOMAIN df_out.rows.data[mkey] :
                       /\ ChannelRecords[i]["Date - EST"] = NaT => w4 = <<"W", "1">>
                       /\ \E k \in 1..Len(df_out.rows.data[mkey][w4]) :
                             df_out.rows.data[mkey][w4][k][1] = ChannelRecords[i]["RTB Advertiser"]

====
